---- MODULE Spec2Model ----
(***************************************************************************)
(* Model of hmc_profile_diff: the HMC session class (logon, logoff,        *)
(* cleanup at interpreter exit, get_lpar_config) of                        *)
(* common/hmc_lpar_attribs.py and the pair loop, host loop, result checks  *)
(* and table generation of hmc_profile_diff.py.                            *)
(*                                                                         *)
(* Four specifications share the definitions of the methods:               *)
(*   Spec        the script: pairs, hosts, sessions, exit handlers         *)
(*   SpecDiff    get_lpar_config and the table generation on drawn         *)
(*               documents and configuration flags                         *)
(*   SpecSession the HMC class driven by an arbitrary caller               *)
(*   SpecAnyUse  a process that is either the script or such a caller      *)
(***************************************************************************)
EXTENDS Integers, Sequences, FiniteSets, TLC

\* ------------------------------------------------------------------ bounds
MaxHosts == 2
MaxPairs == 2
MaxAdapters == 2
MaxCalls == 4

\* ----------------------------------------------------------- Python values
\* None, int, str and dict values keep their type, so that 1 == {...},
\* None == 'missing' and 'None' == None are all false as in Python.
None == [type |-> "NoneType"]
PyInt(i) == [type |-> "int", i |-> i]
PyStr(s) == [type |-> "str", s |-> s]
PyDict(d) == [type |-> "dict", d |-> d]
isinstance_dict(x) == x.type = "dict"

Range(f) == {f[i] : i \in DOMAIN f}

\* ----------------------------------------------------------- str methods
Ascii == "0123456789ABCDEFGHIJKLMNOPQRSTUVWXYZ_abcdefghijklmnopqrstuvwxyz"
Char(s, i) == SubSeq(s, i, i)
\* the code point order of the characters that occur in keys
Ord == [c \in {Char(Ascii, i) : i \in 1..Len(Ascii)} |->
           CHOOSE i \in 1..Len(Ascii) : Char(Ascii, i) = c]

\* str.startswith
startswith(k, p) == Len(k) >= Len(p) /\ SubSeq(k, 1, Len(p)) = p

\* position of the first underscore at or after i, of the last at or before i
RECURSIVE find_(_, _)
find_(k, i) == IF Char(k, i) = "_" THEN i ELSE find_(k, i + 1)
RECURSIVE rfind_(_, _)
rfind_(k, i) == IF Char(k, i) = "_" THEN i ELSE rfind_(k, i - 1)

\* k.split("_", 1)[1]: what follows the first underscore
split1(k) == SubSeq(k, find_(k, 1) + 1, Len(k))

\* k.rsplit("_", 1)[1]: what follows the last underscore
rsplit1(k) == SubSeq(k, rfind_(k, Len(k)) + 1, Len(k))

\* a < b on str from position i on: code point order, a proper prefix
\* sorts first
RECURSIVE StrLessFrom(_, _, _)
StrLessFrom(a, b, i) ==
    IF i > Len(a) THEN i <= Len(b)
    ELSE IF i > Len(b) THEN FALSE
    ELSE IF Char(a, i) = Char(b, i) THEN StrLessFrom(a, b, i + 1)
    ELSE Ord[Char(a, i)] < Ord[Char(b, i)]

StrLess(a, b) == StrLessFrom(a, b, 1)

\* s with x put before its first element that is not less than x
RECURSIVE insert(_, _)
insert(s, x) ==
    IF s = <<>> THEN <<x>>
    ELSE IF StrLess(s[1], x) THEN <<s[1]>> \o insert(Tail(s), x)
    ELSE <<x>> \o s

\* sorted(allkeys): the keys of a set in ascending order
RECURSIVE sorted(_)
sorted(S) ==
    IF S = {} THEN <<>>
    ELSE LET x == CHOOSE x \in S : TRUE
         IN insert(sorted(S \ {x}), x)

\* ------------------------------------------------- get_lpar_config: lists
attribs_general_general == <<"PartitionType", "CurrentProcessorCompatibilityMode">>
attribs_default_general == <<"ProfileName">>
attribs_default_processor ==
    <<"SharingMode", "UncappedWeight", "MinimumProcessingUnits",
      "DesiredProcessingUnits", "MaximumProcessingUnits",
      "MinimumVirtualProcessors", "DesiredVirtualProcessors",
      "MaximumVirtualProcessors">>
attribs_default_memory ==
    <<"ActiveMemoryExpansionEnabled", "DesiredMemory", "ExpansionFactor",
      "MaximumMemory", "MinimumMemory">>
attribs_default_veth == <<"VirtualSlotNumber", "PortVLANID", "VirtualSwitchName">>
attribs_default_vfc == <<"VirtualSlotNumber", "AdapterType">>
attribs_default_vscsi == <<"VirtualSlotNumber", "AdapterType">>

\* the configuration flags read from config.yaml
CfgFlags == {"compare_general", "compare_processors", "compare_memory",
             "compare_networking", "compare_virtual_fc", "compare_virtual_scsi"}

\* A later assignment lpardata[k] = v replaces an earlier one.
Merge(f, g) ==
    [k \in (DOMAIN f) \cup (DOMAIN g) |-> IF k \in DOMAIN g THEN g[k] ELSE f[k]]

EmptyDict == [k \in {} |-> None]

\* an extraction that makes no key for an element the document lacks
ExtractFixed_present(elems, prefix, attribs) ==
    LET keys == {prefix \o a : a \in Range(attribs) \cap DOMAIN elems}
    IN [k \in keys |-> elems[SubSeq(k, Len(prefix) + 1, Len(k))]]

\* for attrib in attribs: lpardata[prefix + attrib] = find(attrib).text if
\* the element is found, else None.  elems maps each tag the document holds
\* to the text of its first element.
ExtractFixed(elems, prefix, attribs) ==
    LET keys == {prefix \o a : a \in Range(attribs)}
    IN [k \in keys |->
           LET a == SubSeq(k, Len(prefix) + 1, Len(k))
           IN IF a \in DOMAIN elems THEN elems[a] ELSE None]

\* for adapter in findall(...): for attrib in attribs:
\*     lpardata[prefix + index + "_" + attrib] = adapter.find(attrib).text
\* (defined when every adapter holds every attrib, see AdapterRaises)
ExtractAdapters(adapters, prefix, attribs) ==
    LET idx == {<<i, a>> : i \in 1..Len(adapters), a \in Range(attribs)}
        key(p) == prefix \o ToString(p[1] - 1) \o "_" \o p[2]
    IN [k \in {key(p) : p \in idx} |->
           LET p == CHOOSE p \in idx : key(p) = k
           IN adapters[p[1]][p[2]]]

\* adapter.find(attrib) is None for an attrib the adapter lacks, and .text
\* of None raises AttributeError.
AdapterRaises(adapters, attribs) ==
    \E i \in 1..Len(adapters) : \E a \in Range(attribs) : a \notin DOMAIN adapters[i]

\* a sanity check that lets every caller through
check_connected_skip(self) == FALSE

\* HMC.check_connected: TRUE when the caller is halted with sys.exit(42)
check_connected(self) == self.connected = FALSE

\* if cfg['compare_general']: the attributes of the search response
general_attributes(cfg, search) ==
    IF cfg["compare_general"]
    THEN ExtractFixed(search.elems, "General_", attribs_general_general)
    ELSE EmptyDict

\* the default profile's general attributes taken whatever the flag says
default_general_unguarded(cfg, p) ==
    ExtractFixed(p.elems, "General_", attribs_default_general)

\* if cfg['compare_general']: the general attributes of the default profile
default_general_attributes(cfg, p) ==
    IF cfg["compare_general"]
    THEN ExtractFixed(p.elems, "General_", attribs_default_general)
    ELSE EmptyDict

processor_attributes(cfg, p) ==
    IF cfg["compare_processors"]
    THEN ExtractFixed(p.elems, "Processor_", attribs_default_processor)
    ELSE EmptyDict

memory_attributes(cfg, p) ==
    IF cfg["compare_memory"]
    THEN ExtractFixed(p.elems, "Memory_", attribs_default_memory)
    ELSE EmptyDict

veth_attributes(cfg, p) ==
    IF cfg["compare_networking"]
    THEN ExtractAdapters(p.veth, "Network_VirtualEthAdapter_", attribs_default_veth)
    ELSE EmptyDict

vfc_attributes(cfg, p) ==
    IF cfg["compare_virtual_fc"]
    THEN ExtractAdapters(p.vfc, "vFC_VirtualFcAdapter_", attribs_default_vfc)
    ELSE EmptyDict

vscsi_attributes(cfg, p) ==
    IF cfg["compare_virtual_scsi"]
    THEN ExtractAdapters(p.vscsi, "vSCSI_VirtualScsiAdapter_", attribs_default_vscsi)
    ELSE EmptyDict

\* an adapter loop that is entered meets an adapter lacking an attribute
adapter_raises(cfg, p) ==
    \/ cfg["compare_networking"] /\ AdapterRaises(p.veth, attribs_default_veth)
    \/ cfg["compare_virtual_fc"] /\ AdapterRaises(p.vfc, attribs_default_vfc)
    \/ cfg["compare_virtual_scsi"] /\ AdapterRaises(p.vscsi, attribs_default_vscsi)

\* a get_lpar_config without the branch for status 204 of the search and
\* with the profile requested before the search response is looked at
get_lpar_config_eager(self, cfg, ans) ==
    LET p == ans.profile
        out(ret, reads, raised, exit) ==
            [ret |-> ret, reads |-> reads, raised |-> raised, exit |-> exit]
    IN  IF check_connected(self) THEN out(None, 0, FALSE, TRUE)
        ELSE IF ans.search.status = 200 THEN
            IF ~ans.search.href THEN out(PyInt(3), 2, FALSE, FALSE)
            ELSE IF p.status = 200 THEN
                IF adapter_raises(cfg, p) THEN out(None, 2, TRUE, FALSE)
                ELSE out(PyDict(
                         Merge(Merge(Merge(Merge(Merge(Merge(
                             general_attributes(cfg, ans.search),
                             default_general_attributes(cfg, p)),
                             processor_attributes(cfg, p)),
                             memory_attributes(cfg, p)),
                             veth_attributes(cfg, p)),
                             vfc_attributes(cfg, p)),
                             vscsi_attributes(cfg, p))),
                         2, FALSE, FALSE)
            ELSE out(PyInt(4), 2, FALSE, FALSE)
        ELSE out(PyInt(2), 2, FALSE, FALSE)

\* HMC.get_lpar_config(lpar) against the answers ans the HMC gives for lpar:
\* ans.search is the response of the search request, ans.profile the
\* response of the request for the associated default profile.
\*   ret    the value returned (when neither exit nor raised)
\*   reads  the number of GET requests sent
\*   raised AttributeError out of the adapter loops
\*   exit   sys.exit(42) out of check_connected
get_lpar_config(self, cfg, ans) ==
    LET p == ans.profile
        out(ret, reads, raised, exit) ==
            [ret |-> ret, reads |-> reads, raised |-> raised, exit |-> exit]
    IN  IF check_connected(self) THEN out(None, 0, FALSE, TRUE)
        ELSE IF ans.search.status = 200 THEN
            IF ~ans.search.href THEN out(PyInt(3), 1, FALSE, FALSE)
            ELSE IF p.status = 200 THEN
                IF adapter_raises(cfg, p) THEN out(None, 2, TRUE, FALSE)
                ELSE out(PyDict(
                         Merge(Merge(Merge(Merge(Merge(Merge(
                             general_attributes(cfg, ans.search),
                             default_general_attributes(cfg, p)),
                             processor_attributes(cfg, p)),
                             memory_attributes(cfg, p)),
                             veth_attributes(cfg, p)),
                             vfc_attributes(cfg, p)),
                             vscsi_attributes(cfg, p))),
                         2, FALSE, FALSE)
            ELSE out(PyInt(4), 2, FALSE, FALSE)
        ELSE IF ans.search.status = 204 THEN out(PyInt(1), 1, FALSE, FALSE)
        ELSE out(PyInt(2), 1, FALSE, FALSE)

\* ------------------------------------------------------ the HMC's answers
\* A response document is kept as what find() and findall() see of it:
\* elems maps each tag present to the text of its first element (None for
\* an empty element), href tells whether AssociatedPartitionProfile is
\* present, and veth, vfc, vscsi list the adapter elements in document
\* order, each mapping the child tags it holds to their text.
Elems(tags, text) == [t \in tags |-> text[t]]

SearchText ==
    [PartitionType |-> PyStr("AIX/Linux"),
     CurrentProcessorCompatibilityMode |-> PyStr("POWER9")]

ProfileText ==
    [ProfileName |-> PyStr("default"), SharingMode |-> PyStr("uncapped"),
     UncappedWeight |-> PyStr("128"), MinimumProcessingUnits |-> PyStr("0.1"),
     DesiredProcessingUnits |-> PyStr("0.5"), MaximumProcessingUnits |-> PyStr("2"),
     MinimumVirtualProcessors |-> PyStr("1"), DesiredVirtualProcessors |-> PyStr("2"),
     MaximumVirtualProcessors |-> PyStr("4"),
     ActiveMemoryExpansionEnabled |-> PyStr("false"), DesiredMemory |-> PyStr("4096"),
     ExpansionFactor |-> PyStr("0"), MaximumMemory |-> PyStr("8192"),
     MinimumMemory |-> PyStr("2048")]

\* a second profile: other values, an empty element and elements left out
ProfileText2 ==
    [ProfileText EXCEPT !.ProfileName = PyStr("missing"), !.DesiredMemory = PyStr("8192"),
                        !.SharingMode = None, !.UncappedWeight = PyStr("None")]

ProfileTags ==
    Range(attribs_default_general) \cup Range(attribs_default_processor)
        \cup Range(attribs_default_memory)

Veth(i, switch) ==
    [VirtualSlotNumber |-> PyStr(ToString(i + 1)), PortVLANID |-> PyStr("1"),
     VirtualSwitchName |-> switch]
Vfc(i) == [VirtualSlotNumber |-> PyStr(ToString(i + 10)), AdapterType |-> PyStr("Client")]
Vscsi(i) == [VirtualSlotNumber |-> PyStr(ToString(i + 20)), AdapterType |-> PyStr("Client")]

SearchDoc(status, tags, href) ==
    [status |-> status, elems |-> Elems(tags, SearchText), href |-> href]
ProfileDoc(status, elems, veth, vfc, vscsi) ==
    [status |-> status, elems |-> elems, veth |-> veth, vfc |-> vfc, vscsi |-> vscsi]

NoProfile == ProfileDoc(0, EmptyDict, <<>>, <<>>, <<>>)
Answer(search, profile) == [search |-> search, profile |-> profile]

\* n adapters of each kind, the switch of the last one named as given
Adapters(n, switch) ==
    [veth |-> [i \in 1..n |-> Veth(i, IF i = n THEN switch ELSE PyStr("ETHERNET0"))],
     vfc |-> [i \in 1..n |-> Vfc(i)],
     vscsi |-> [i \in 1..n |-> Vscsi(i)]]

FoundAnswer(tags, elems, ad) ==
    Answer(SearchDoc(200, tags, TRUE),
           ProfileDoc(200, elems, ad.veth, ad.vfc, ad.vscsi))

\* the answers that end a lookup without a record
FailAnswers ==
    { Answer(SearchDoc(204, {}, FALSE), NoProfile),
      Answer(SearchDoc(500, {}, FALSE), NoProfile),
      Answer(SearchDoc(200, Range(attribs_general_general), FALSE), NoProfile),
      Answer(SearchDoc(200, Range(attribs_general_general), TRUE),
             ProfileDoc(500, EmptyDict, <<>>, <<>>, <<>>)) }

\* a profile whose last network adapter lacks PortVLANID
BrokenAnswer ==
    LET ad == Adapters(1, PyStr("ETHERNET0"))
    IN FoundAnswer(Range(attribs_general_general), Elems(ProfileTags, ProfileText),
           [ad EXCEPT !.veth = <<[t \in {"VirtualSlotNumber", "VirtualSwitchName"} |->
                                   ad.veth[1][t]]>>])

\* the answers of the script's model: every failure, two different
\* records, and the broken profile
Answers ==
    FailAnswers \cup {BrokenAnswer} \cup
    { FoundAnswer(Range(attribs_general_general), Elems(ProfileTags, ProfileText),
                  Adapters(1, PyStr("ETHERNET0"))),
      FoundAnswer({"PartitionType"}, Elems(ProfileTags \ {"ExpansionFactor"}, ProfileText2),
                  Adapters(MaxAdapters, PyStr("missing"))) }

\* the answers of the table model: records with 0..MaxAdapters adapters of
\* each kind, a switch named 'missing', an empty switch name, the second
\* profile text, and the broken profile
DiffAnswers ==
    {BrokenAnswer} \cup
    { FoundAnswer(Range(attribs_general_general), Elems(ProfileTags, ProfileText),
                  Adapters(n, PyStr("ETHERNET0"))) : n \in 0..MaxAdapters } \cup
    { FoundAnswer(Range(attribs_general_general), Elems(ProfileTags, ProfileText),
                  Adapters(MaxAdapters, sw)) : sw \in {PyStr("missing"), None} } \cup
    { FoundAnswer({"PartitionType"}, Elems(ProfileTags \ {"ExpansionFactor"}, ProfileText2),
                  Adapters(1, PyStr("ETHERNET1"))) }

\* ------------------------------------------------------------ class HMC
\* An HMC object; __init__ sets these before it calls logon.
NewSelf == [hmc_name |-> "", token |-> "", connected |-> FALSE]

\* the token the HMC issues with its n-th successful logon
Token(n) == "token" \o ToString(n)

ok_return_codes == {200, 202, 204}

\* a logon without the sys.exit of its failure branch: whatever the status,
\* it reads the token out of the response and sets connected
logon_no_exit(self, hmc, resp) ==
    IF self.connected
    THEN [self |-> self, put |-> FALSE, exit |-> 42]
    ELSE [self |-> [self EXCEPT !.hmc_name = hmc, !.token = resp.token,
                                !.connected = TRUE],
          put |-> TRUE, exit |-> -1]

\* a logon without the test of self.connected in front of the PUT
logon_unchecked(self, hmc, resp) ==
    IF resp.status # 200
    THEN [self |-> [self EXCEPT !.hmc_name = hmc], put |-> TRUE, exit |-> resp.status]
    ELSE [self |-> [self EXCEPT !.hmc_name = hmc, !.token = resp.token,
                                !.connected = TRUE],
          put |-> TRUE, exit |-> -1]

\* HMC.logon(hmc, user, passwd) against the response resp of the PUT.
\*   put   the PUT request was sent
\*   exit  the status given to sys.exit, -1 when logon returns
logon(self, hmc, resp) ==
    IF self.connected
    THEN [self |-> self, put |-> FALSE, exit |-> 42]
    ELSE IF resp.status # 200
    THEN [self |-> [self EXCEPT !.hmc_name = hmc], put |-> TRUE, exit |-> resp.status]
    ELSE [self |-> [self EXCEPT !.hmc_name = hmc, !.token = resp.token,
                                !.connected = TRUE],
          put |-> TRUE, exit |-> -1]

\* a logoff that returns to its caller when the HMC rejects the DELETE
logoff_returns(self, rcode) ==
    IF self.connected = FALSE
    THEN [self |-> self, delete |-> FALSE, exit |-> 42]
    ELSE [self |-> [self EXCEPT !.connected = rcode \notin {200, 202, 204}],
          delete |-> TRUE, exit |-> -1]

\* HMC.logoff() against the status rcode of the DELETE.
\*   delete  the DELETE request was sent (it carries self.token)
\*   exit    the status given to sys.exit, -1 when logoff returns
logoff(self, rcode) ==
    IF check_connected(self)
    THEN [self |-> self, delete |-> FALSE, exit |-> 42]
    ELSE IF rcode \in ok_return_codes
    THEN [self |-> [self EXCEPT !.connected = FALSE], delete |-> TRUE, exit |-> -1]
    ELSE [self |-> self, delete |-> TRUE, exit |-> rcode]

\* a cleanup that tests the flag the wrong way round
cleanup_inverted(self) == ~self.connected

\* HMC.cleanup(): TRUE when it sends the DELETE (it carries self.token)
cleanup(self) == self.connected

\* ------------------------------------------- reconciliation and the table
\* allkeys = lpar1_keys | lpar2_keys
allkeys(d1, d2) == (DOMAIN d1) \cup (DOMAIN d2)

\* for k in allkeys: if k not in data.keys(): data[k] = 'missing'
pad(data, keys) ==
    [k \in keys |-> IF k \in DOMAIN data THEN data[k] ELSE PyStr("missing")]

\* samevalues = [k for k in lpar1_data if lpar1_data[k] == lpar2_data[k]]
samevalues(d1, d2) == {k \in DOMAIN d1 : d1[k] = d2[k]}

\* a list of groups with Processor and Memory the other way round
primarykeys_swapped == <<"General", "Memory", "Processor", "Network", "vFC", "vSCSI">>

\* a list of groups that leaves vFC out
primarykeys_short == <<"General", "Processor", "Memory", "Network", "vSCSI">>

primarykeys == <<"General", "Processor", "Memory", "Network", "vFC", "vSCSI">>

\* a display name cut at the last underscore for every group
k_printname_rsplit(primarykey, k) == rsplit1(k)

\* k.split("_", 1)[1] for the adapter groups, k.rsplit("_", 1)[1] for the others
k_printname(primarykey, k) ==
    IF primarykey \in {"Network", "vFC", "vSCSI"} THEN split1(k) ELSE rsplit1(k)

\* f'{value}' of a str or of None
format(v) == IF v = None THEN "None" ELSE v.s

\* difftable.add_row(k_printname, f'[colour]{lpar1_data[k]}[/colour]', ...);
\* key is the key the row was made for (not part of the printed row)
add_row(primarykey, k, colour, d1, d2) ==
    [key |-> k, name |-> k_printname(primarykey, k),
     lpar1 |-> "[" \o colour \o "]" \o format(d1[k]) \o "[/" \o colour \o "]",
     lpar2 |-> "[" \o colour \o "]" \o format(d2[k]) \o "[/" \o colour \o "]"]

\* a diffonly branch that tests k in samevalues
emits_inverted(diffonly, k, same) == IF diffonly THEN k \in same ELSE TRUE

\* the test the table loop puts on k before it adds a row
emits(diffonly, k, same) == IF diffonly THEN k \notin same ELSE TRUE

\* for k in sorted(allkeys): if k.startswith(primarykey): ... add_row
rows_of(primarykey, keys, d1, d2, diffonly) ==
    LET same == samevalues(d1, d2)
        Sel(k) == startswith(k, primarykey) /\ emits(diffonly, k, same)
        ks == SelectSeq(keys, Sel)
    IN [i \in 1..Len(ks) |->
           add_row(primarykey, ks[i], IF ks[i] \in same THEN "green" ELSE "red", d1, d2)]

RECURSIVE table_from(_, _, _, _, _)
table_from(g, keys, d1, d2, diffonly) ==
    IF g > Len(primarykeys) THEN <<>>
    ELSE rows_of(primarykeys[g], keys, d1, d2, diffonly)
             \o table_from(g + 1, keys, d1, d2, diffonly)

\* lines 142-176 on two records: the rows of difftable in the order added
generate_table(lpar1_data_d, lpar2_data_d, diffonly) ==
    LET keys == allkeys(lpar1_data_d, lpar2_data_d)
        d1 == pad(lpar1_data_d, keys)
        d2 == pad(lpar2_data_d, keys)
    IN table_from(1, sorted(keys), d1, d2, diffonly)

\* ----------------------------------------------------------------- state
VARIABLES
    cfg,         \* config.yaml: the compare_* flags
    diffonly,    \* results.diffonly
    hmcs,        \* the list of HMC host names
    lpars,       \* the list of LPAR pairs, each split at ':'
    pc,          \* where the script is
    pair,        \* position of lpar_pair in lpars
    host,        \* position of hostname in hmcs
    objects,     \* every HMC object constructed so far
    hmc,         \* position in objects of the object the name hmc is bound to
    handlers,    \* the atexit registry: positions in objects, in order registered
    lpar1_data, lpar2_data,
    difftable,   \* the rows added to the difftable of the current pair
    message,     \* the line the result checks printed
    exit,        \* how the interpreter left the script, and with what status
    issued,      \* number of tokens issued by the HMCs
    revoked,     \* per token, the DELETE requests sent that carry it
    reads,       \* the GET requests sent by the last get_lpar_config of the pair
    asked,       \* the <<host, lpar>> lookups made for the current pair
    found,       \* per lpar of the pair, the first record a lookup returned
    last,        \* per lpar of the pair, host and value of the last lookup
    calls        \* calls made by the caller of SpecSession

vars == <<cfg, diffonly, hmcs, lpars, pc, pair, host, objects, hmc, handlers,
          lpar1_data, lpar2_data, difftable, message, exit, issued, revoked,
          reads, asked, found, last, calls>>

inputs == <<cfg, diffonly, hmcs, lpars>>
session == <<objects, hmc, handlers, issued, revoked>>
lookups == <<lpar1_data, lpar2_data, reads, asked, found, last>>

Running == [how |-> "running", code |-> -1, at |-> ""]
SystemExit(code, at) == [how |-> "SystemExit", code |-> code, at |-> at]
Raised(exc, at) == [how |-> exc, code |-> 1, at |-> at]
NoMessage == [text |-> "", lpar |-> ""]

AllOn == [f \in CfgFlags |-> TRUE]
NoLookups == [n \in 1..2 |-> None]
NoLast == [n \in 1..2 |-> [host |-> 0, ret |-> None]]

\* the state common to every specification once the inputs are read
Start ==
    /\ pc = "pair" /\ pair = 1 /\ host = 1
    /\ objects = <<>> /\ hmc = 0 /\ handlers = <<>>
    /\ lpar1_data = None /\ lpar2_data = None
    /\ difftable = <<>> /\ message = NoMessage /\ exit = Running
    /\ issued = 0 /\ revoked = [t \in {} |-> 0]
    /\ reads = 0 /\ asked = {} /\ found = NoLookups /\ last = NoLast
    /\ calls = 0

HostNames(n) == [i \in 1..n |-> "hmc" \o ToString(i)]
Pairs(n) == [i \in 1..n |-> [lpar1_name |-> "prod" \o ToString(i),
                              lpar2_name |-> "dr" \o ToString(i)]]

Init ==
    /\ cfg \in {AllOn, [AllOn EXCEPT !["compare_networking"] = FALSE]}
    /\ diffonly \in BOOLEAN
    /\ \E n \in 1..MaxHosts : hmcs = HostNames(n)
    /\ \E n \in 1..MaxPairs : lpars = Pairs(n)
    /\ Start

\* sys.exit(code) or an unhandled exception: the interpreter runs the
\* atexit handlers next
Leave(how) == exit' = how /\ pc' = "atexit"

\* ------------------------------------------------------------ the script
\* for lpar_pair in lpars: lpar1_data, lpar2_data = None, None
PairLoop ==
    /\ pc = "pair" /\ pair <= Len(lpars)
    /\ lpar1_data' = None /\ lpar2_data' = None
    /\ host' = 1 /\ pc' = "host"
    /\ asked' = {} /\ found' = NoLookups /\ last' = NoLast /\ reads' = 0
    /\ difftable' = <<>>
    /\ UNCHANGED <<inputs, session, pair, message, exit, calls>>

\* the end of the script after the last pair
EndOfScript ==
    /\ pc = "pair" /\ pair > Len(lpars)
    /\ Leave([how |-> "end", code |-> 0, at |-> ""])
    /\ UNCHANGED <<inputs, session, lookups, pair, host, difftable, message, calls>>

\* a host loop without its break
both_found_never == FALSE

\* if isinstance(lpar1_data, dict) and isinstance(lpar2_data, dict): break
both_found == isinstance_dict(lpar1_data) /\ isinstance_dict(lpar2_data)

\* for hostname in hmcs: exhausted, or break when both are dicts
HostLoopEnd ==
    /\ pc = "host"
    /\ host > Len(hmcs) \/ both_found
    /\ pc' = "check"
    /\ UNCHANGED <<inputs, session, lookups, pair, host, difftable, message, exit, calls>>

\* HMC.__init__: the object, logon, atexit.register(self.cleanup)
construct(hostname, resp) ==
    LET r == logon(NewSelf, hostname, resp)
    IN /\ objects' = Append(objects, r.self)
       /\ hmc' = IF r.exit = -1 THEN Len(objects) + 1 ELSE hmc
       /\ handlers' = IF r.exit = -1 THEN Append(handlers, Len(objects) + 1) ELSE handlers
       /\ issued' = IF resp.status = 200 THEN issued + 1 ELSE issued
       /\ revoked' = IF resp.status = 200
                     THEN [t \in DOMAIN revoked \cup {resp.token} |->
                              IF t \in DOMAIN revoked THEN revoked[t] ELSE 0]
                     ELSE revoked
       /\ IF r.exit = -1 THEN exit' = exit
                         ELSE exit' = SystemExit(r.exit, "logon")

\* what the HMC may answer to the logon PUT
LogonResponses == {[status |-> st, token |-> IF st = 200 THEN Token(issued + 1) ELSE ""] :
                      st \in {200, 401}}

\* hmc = hmcconnect.HMC(hostname, hmc_user, hmc_pass)
NewHMC ==
    /\ pc = "host" /\ host <= Len(hmcs) /\ ~both_found
    /\ \E resp \in LogonResponses :
          /\ construct(hmcs[host], resp)
          /\ pc' = IF exit' = Running THEN "get1" ELSE "atexit"
    /\ UNCHANGED <<inputs, lookups, pair, host, difftable, message, calls>>

\* a lookup that keeps the first value returned for a name of the pair
lookup_keeps_first(n, ans, next) ==
    LET r == get_lpar_config(objects[hmc], cfg, ans)
    IN /\ reads' = r.reads
       /\ asked' = IF r.exit THEN asked ELSE asked \cup {<<host, n>>}
       /\ IF r.exit THEN
              /\ Leave(SystemExit(42, "get_lpar_config"))
              /\ UNCHANGED <<lpar1_data, lpar2_data, found, last>>
          ELSE IF r.raised THEN
              /\ Leave(Raised("AttributeError", "get_lpar_config"))
              /\ UNCHANGED <<lpar1_data, lpar2_data, found, last>>
          ELSE
              /\ lpar1_data' = IF n = 1 /\ lpar1_data = None THEN r.ret ELSE lpar1_data
              /\ lpar2_data' = IF n = 2 /\ lpar2_data = None THEN r.ret ELSE lpar2_data
              /\ found' = IF isinstance_dict(r.ret) /\ found[n] = None
                          THEN [found EXCEPT ![n] = r.ret] ELSE found
              /\ last' = [last EXCEPT ![n] = [host |-> host, ret |-> r.ret]]
              /\ pc' = next /\ exit' = exit

\* lparN_data = hmc.get_lpar_config(lparN_name), answered with ans by the
\* HMC the object is logged on to
lookup(n, ans, next) ==
    LET r == get_lpar_config(objects[hmc], cfg, ans)
    IN /\ reads' = r.reads
       /\ asked' = IF r.exit THEN asked ELSE asked \cup {<<host, n>>}
       /\ IF r.exit THEN
              /\ Leave(SystemExit(42, "get_lpar_config"))
              /\ UNCHANGED <<lpar1_data, lpar2_data, found, last>>
          ELSE IF r.raised THEN
              /\ Leave(Raised("AttributeError", "get_lpar_config"))
              /\ UNCHANGED <<lpar1_data, lpar2_data, found, last>>
          ELSE
              /\ lpar1_data' = IF n = 1 THEN r.ret ELSE lpar1_data
              /\ lpar2_data' = IF n = 2 THEN r.ret ELSE lpar2_data
              /\ found' = IF isinstance_dict(r.ret) /\ found[n] = None
                          THEN [found EXCEPT ![n] = r.ret] ELSE found
              /\ last' = [last EXCEPT ![n] = [host |-> host, ret |-> r.ret]]
              /\ pc' = next /\ exit' = exit

\* a host loop that looks both names up on every host
wanted_always(data) == TRUE

\* the test guarding each lookup of the host loop
wanted(data) == ~isinstance_dict(data)

\* if not isinstance(lpar1_data, dict): lpar1_data = hmc.get_lpar_config(lpar1_name)
GetLpar1(A) ==
    /\ pc = "get1"
    /\ IF wanted(lpar1_data)
       THEN \E ans \in A : lookup(1, ans, "get2")
       ELSE pc' = "get2" /\ UNCHANGED <<lookups, exit>>
    /\ UNCHANGED <<inputs, session, pair, host, difftable, message, calls>>

\* if not isinstance(lpar2_data, dict): lpar2_data = hmc.get_lpar_config(lpar2_name)
GetLpar2(A) ==
    /\ pc = "get2"
    /\ IF wanted(lpar2_data)
       THEN \E ans \in A : lookup(2, ans, "logoff")
       ELSE pc' = "logoff" /\ UNCHANGED <<lookups, exit>>
    /\ UNCHANGED <<inputs, session, pair, host, difftable, message, calls>>

\* the DELETE request of object i was sent
Revoke(i) ==
    LET t == objects[i].token
    IN revoked' = [u \in DOMAIN revoked \cup {t} |->
                      IF u = t THEN (IF t \in DOMAIN revoked THEN revoked[t] ELSE 0) + 1
                      ELSE revoked[u]]

LogoffStatuses == ok_return_codes \cup {500}

\* hmc.logoff(), the last statement of the host loop's body
Logoff ==
    /\ pc = "logoff"
    /\ \E rcode \in LogoffStatuses :
          LET r == logoff(objects[hmc], rcode)
          IN /\ objects' = [objects EXCEPT ![hmc] = r.self]
             /\ IF r.delete THEN Revoke(hmc) ELSE revoked' = revoked
             /\ IF r.exit = -1
                THEN pc' = "host" /\ host' = host + 1 /\ exit' = exit
                ELSE Leave(SystemExit(r.exit, "logoff")) /\ host' = host
    /\ UNCHANGED <<inputs, lookups, pair, hmc, handlers, issued, difftable, message, calls>>

\* lines 123-140: the first test of the chain that holds, if any
failure(d1, d2) ==
    IF d1 = PyInt(1) THEN [text |-> "LPAR not found", lpar |-> 1]
    ELSE IF d1 = PyInt(2) THEN [text |-> "Error encountered obtaining data", lpar |-> 1]
    ELSE IF d1 = PyInt(3) THEN [text |-> "No default profile found", lpar |-> 1]
    ELSE IF d2 = PyInt(1) THEN [text |-> "LPAR not found", lpar |-> 2]
    ELSE IF d2 = PyInt(2) THEN [text |-> "Error encountered obtaining data", lpar |-> 2]
    ELSE IF d2 = PyInt(3) THEN [text |-> "No default profile found", lpar |-> 2]
    ELSE [text |-> "", lpar |-> 0]

\* result checks that print the message and go on with the next pair
ResultChecks_continue ==
    /\ pc = "check"
    /\ LET f == failure(lpar1_data, lpar2_data)
       IN IF f.lpar # 0
          THEN /\ message' = [text |-> f.text,
                               lpar |-> IF f.lpar = 1 THEN lpars[pair].lpar1_name
                                                      ELSE lpars[pair].lpar2_name]
               /\ pair' = pair + 1 /\ pc' = "pair"
               /\ UNCHANGED exit
          ELSE /\ pc' = "compare"
               /\ UNCHANGED <<message, exit, pair>>
    /\ UNCHANGED <<inputs, session, lookups, host, difftable, calls>>

\* Check that we have data for all LPAR's: print and sys.exit(), or go on
ResultChecks ==
    /\ pc = "check"
    /\ LET f == failure(lpar1_data, lpar2_data)
       IN IF f.lpar # 0
          THEN /\ message' = [text |-> f.text,
                               lpar |-> IF f.lpar = 1 THEN lpars[pair].lpar1_name
                                                      ELSE lpars[pair].lpar2_name]
               /\ Leave(SystemExit(0, "check"))
          ELSE /\ pc' = "compare"
               /\ UNCHANGED <<message, exit>>
    /\ UNCHANGED <<inputs, session, lookups, pair, host, difftable, calls>>

\* lines 142-179: pad both dicts, generate and print the table.  .keys()
\* of a value that is no dict raises AttributeError.
Compare ==
    /\ pc = "compare"
    /\ IF isinstance_dict(lpar1_data) /\ isinstance_dict(lpar2_data)
       THEN LET keys == allkeys(lpar1_data.d, lpar2_data.d)
            IN /\ lpar1_data' = PyDict(pad(lpar1_data.d, keys))
               /\ lpar2_data' = PyDict(pad(lpar2_data.d, keys))
               /\ difftable' = generate_table(lpar1_data.d, lpar2_data.d, diffonly)
               /\ pair' = pair + 1 /\ pc' = "pair" /\ exit' = exit
       ELSE /\ Leave(Raised("AttributeError", "compare"))
            /\ UNCHANGED <<lpar1_data, lpar2_data, difftable, pair>>
    /\ UNCHANGED <<inputs, session, reads, asked, found, last, host, message, calls>>

\* interpreter exit: the handler registered last runs next
AtExit ==
    /\ pc = "atexit" /\ handlers # <<>>
    /\ LET i == handlers[Len(handlers)]
       IN IF cleanup(objects[i]) THEN Revoke(i) ELSE revoked' = revoked
    /\ handlers' = SubSeq(handlers, 1, Len(handlers) - 1)
    /\ UNCHANGED <<inputs, lookups, objects, hmc, issued, pc, pair, host, difftable,
                   message, exit, calls>>

\* every handler has run: the process is gone
Terminate ==
    /\ pc = "atexit" /\ handlers = <<>>
    /\ pc' = "done"
    /\ UNCHANGED <<inputs, session, lookups, pair, host, difftable, message, exit, calls>>

Next ==
    \/ PairLoop \/ EndOfScript \/ HostLoopEnd \/ NewHMC
    \/ GetLpar1(Answers) \/ GetLpar2(Answers) \/ Logoff
    \/ ResultChecks \/ Compare \/ AtExit \/ Terminate

Spec == Init /\ [][Next]_vars

\* ------------------------------------------- lookups and table on their own
\* One pair on one HMC, under every setting of the flags.
InitDiff ==
    /\ cfg \in [CfgFlags -> BOOLEAN]
    /\ diffonly \in BOOLEAN
    /\ hmcs = HostNames(1)
    /\ lpars = Pairs(1)
    /\ Start

NextDiff ==
    \/ PairLoop \/ EndOfScript \/ HostLoopEnd \/ NewHMC
    \/ GetLpar1(DiffAnswers) \/ GetLpar2(DiffAnswers) \/ Logoff
    \/ ResultChecks \/ Compare \/ AtExit \/ Terminate

SpecDiff == InitDiff /\ [][NextDiff]_vars

\* -------------------------------------------- the class under any caller
\* A caller that constructs objects and calls their methods in any order,
\* MaxCalls times at most, and then ends.
InitSession ==
    /\ cfg = AllOn /\ diffonly = FALSE
    /\ hmcs = HostNames(MaxHosts) /\ lpars = Pairs(1)
    /\ Start

InCaller == pc = "pair" /\ calls < MaxCalls

\* HMC(hostname, user, passwd)
CallNew ==
    /\ InCaller /\ calls' = calls + 1
    /\ \E h \in 1..Len(hmcs) : \E resp \in LogonResponses :
          /\ construct(hmcs[h], resp)
          /\ pc' = IF exit' = Running THEN pc ELSE "atexit"
    /\ UNCHANGED <<inputs, lookups, pair, host, difftable, message>>

\* obj.logon(hostname, user, passwd) on an object constructed before
CallLogon ==
    /\ InCaller /\ calls' = calls + 1
    /\ \E i \in 1..Len(objects) : \E h \in 1..Len(hmcs) : \E resp \in LogonResponses :
          LET r == logon(objects[i], hmcs[h], resp)
              ok == r.put /\ resp.status = 200
          IN /\ objects' = [objects EXCEPT ![i] = r.self]
             /\ issued' = IF ok THEN issued + 1 ELSE issued
             /\ revoked' = IF ok THEN [t \in DOMAIN revoked \cup {resp.token} |->
                                          IF t \in DOMAIN revoked THEN revoked[t] ELSE 0]
                                 ELSE revoked
             /\ IF r.exit = -1 THEN pc' = pc /\ exit' = exit
                               ELSE Leave(SystemExit(r.exit, "logon"))
    /\ UNCHANGED <<inputs, lookups, pair, host, hmc, handlers, difftable, message>>

\* obj.logoff()
CallLogoff ==
    /\ InCaller /\ calls' = calls + 1
    /\ \E i \in 1..Len(objects) : \E rcode \in LogoffStatuses :
          LET r == logoff(objects[i], rcode)
          IN /\ objects' = [objects EXCEPT ![i] = r.self]
             /\ IF r.delete THEN Revoke(i) ELSE revoked' = revoked
             /\ IF r.exit = -1 THEN pc' = pc /\ exit' = exit
                               ELSE Leave(SystemExit(r.exit, "logoff"))
    /\ UNCHANGED <<inputs, lookups, pair, host, hmc, handlers, issued, difftable, message>>

\* lpar1_data = obj.get_lpar_config(name)
CallGet ==
    /\ InCaller /\ calls' = calls + 1
    /\ \E i \in 1..Len(objects) : \E ans \in Answers :
          LET r == get_lpar_config(objects[i], cfg, ans)
          IN /\ reads' = r.reads
             /\ IF r.exit THEN Leave(SystemExit(42, "get_lpar_config"))
                              /\ lpar1_data' = lpar1_data
                ELSE IF r.raised THEN Leave(Raised("AttributeError", "get_lpar_config"))
                                      /\ lpar1_data' = lpar1_data
                ELSE lpar1_data' = r.ret /\ pc' = pc /\ exit' = exit
    /\ UNCHANGED <<inputs, session, lpar2_data, asked, found, last, pair, host,
                   difftable, message>>

\* the caller returns
CallerEnds ==
    /\ pc = "pair"
    /\ Leave([how |-> "end", code |-> 0, at |-> ""])
    /\ UNCHANGED <<inputs, session, lookups, pair, host, difftable, message, calls>>

NextSession ==
    \/ CallNew \/ CallLogon \/ CallLogoff \/ CallGet \/ CallerEnds
    \/ AtExit \/ Terminate

SpecSession == InitSession /\ [][NextSession]_vars

\* ------------------------------------- the class under the script or any caller
\* The process runs either the script, which never counts a call, or a
\* caller of the class, which counts its first call before the script
\* could start a pair.
FromScript == calls = 0
FromCaller == calls > 0 \/ (pair = 1 /\ objects = <<>>)

NextAnyUse ==
    \/ FromScript /\ PairLoop
    \/ FromScript /\ EndOfScript
    \/ FromScript /\ HostLoopEnd
    \/ FromScript /\ NewHMC
    \/ FromScript /\ GetLpar1(Answers)
    \/ FromScript /\ GetLpar2(Answers)
    \/ FromScript /\ Logoff
    \/ FromScript /\ ResultChecks
    \/ FromScript /\ Compare
    \/ FromCaller /\ CallNew
    \/ FromCaller /\ CallLogon
    \/ FromCaller /\ CallLogoff
    \/ FromCaller /\ CallGet
    \/ FromCaller /\ CallerEnds
    \/ AtExit \/ Terminate

\* the flags and diffonly bear on neither the sessions nor the calls
InitAnyUse ==
    /\ cfg = AllOn /\ diffonly = FALSE
    /\ \E n \in 1..MaxHosts : hmcs = HostNames(n)
    /\ \E n \in 1..MaxPairs : lpars = Pairs(n)
    /\ Start

SpecAnyUse == InitAnyUse /\ [][NextAnyUse]_vars

\* ================================================================ claims
data(n) == IF n = 1 THEN lpar1_data ELSE lpar2_data
Issued == DOMAIN revoked
IsOpen(i) == objects[i].connected

\* C1: when the host loop is over, each name was looked up on the hosts
\* 1..h in order without a gap; a name some host found holds the first
\* record returned for it (found on the last host asked, and never asked
\* again), and a name no host found was asked on every host of the list.
C1_FirstFoundWins ==
    pc = "check" =>
        \A n \in 1..2 :
            /\ {h \in 1..Len(hmcs) : <<h, n>> \in asked} = 1..last[n].host
            /\ found[n] # None => data(n) = found[n] /\ last[n].ret = found[n]
            /\ found[n] = None => last[n].host = Len(hmcs) /\ ~isinstance_dict(data(n))

\* C1 witness: the first host did not find lpar 2 but found lpar 1, the
\* second host was asked for lpar 2 only and found it.
C1_Witness ==
    /\ pc = "check" /\ both_found
    /\ last[1].host = 1 /\ last[2].host = 2
    /\ asked = {<<1, 1>>, <<1, 2>>, <<2, 2>>}

\* C2: an object constructed after another finds the earlier one logged
\* off, its DELETE sent and accepted; so at most one object is connected.
C2_ClosedBeforeNextOpen ==
    /\ \A i \in 1..Len(objects) : \A j \in (i+1)..Len(objects) :
          /\ ~IsOpen(i)
          /\ objects[i].token # "" => revoked[objects[i].token] >= 1
    /\ Cardinality({i \in 1..Len(objects) : IsOpen(i)}) <= 1

\* C2 witness: a session open on the second host of a pair after lookups
\* on the first host that found nothing
C2_Witness ==
    /\ Len(objects) >= 2 /\ IsOpen(Len(objects)) /\ host = 2 /\ pc = "logoff"
    /\ found[1] = None /\ <<1, 1>> \in asked

\* C3 (as claimed): the DELETE carrying an issued token is sent at most
\* once while the script runs and exactly once by the time the process is
\* gone.
C3_RevokedExactlyOnce ==
    \A t \in Issued :
        /\ revoked[t] <= 1
        /\ pc = "done" => revoked[t] = 1

\* C4: when the process is gone, a DELETE was sent for every token issued.
C4_NoTokenLeaked ==
    pc = "done" => \A t \in Issued : revoked[t] >= 1

\* C4 witness: the process is gone after an exception in a lookup, and
\* the token of the session that was open then was revoked
C4_Witness ==
    /\ pc = "done" /\ exit = Raised("AttributeError", "get_lpar_config")
    /\ IsOpen(hmc) /\ revoked[objects[hmc].token] = 1

\* C6 (as claimed): the comparison is started with two records only, and
\* no lookup outcome makes the comparison raise.
C6_FailuresReported ==
    /\ pc = "compare" => isinstance_dict(lpar1_data) /\ isinstance_dict(lpar2_data)
    /\ exit.at # "compare"

AllClosed == \A i \in 1..Len(objects) : ~IsOpen(i)

\* C5 (as claimed): logoff called when no object is connected changes
\* nothing, sends nothing and does not end the run.
C5_LogoffIsNoOp ==
    [][(CallLogoff /\ AllClosed) => UNCHANGED <<objects, revoked, exit, pc>>]_vars

\* C5 (amended): logoff called when no object is connected sends no
\* request and leaves token and connected as they are, and it halts the
\* run with status 42.
C5_LogoffHaltsWhenClosed ==
    [][(CallLogoff /\ AllClosed) =>
          /\ UNCHANGED <<objects, revoked, issued>>
          /\ exit' = SystemExit(42, "logoff") /\ pc' = "atexit"]_vars

\* C5 witness: a second logoff after a logoff the HMC accepted has halted
\* the run
C5_Witness ==
    /\ exit = SystemExit(42, "logoff") /\ AllClosed
    /\ \E t \in Issued : revoked[t] = 1
    /\ \A t \in Issued : revoked[t] <= 1

\* the keys of the two records the lookups of the pair returned
RecordKeys == (DOMAIN found[1].d) \cup (DOMAIN found[2].d)
Compared == pair > 1
RowKeys == {difftable[i].key : i \in 1..Len(difftable)}

\* C7: without diffonly the table has one row for each key of either
\* record and no other row.
C7_RowsAreUnionOfKeys ==
    (Compared /\ ~diffonly) =>
        /\ RowKeys = RecordKeys
        /\ Len(difftable) = Cardinality(RecordKeys)

\* C7 witness: two records of all six groups with different key sets
\* were compared
C7_Witness ==
    /\ Compared /\ ~diffonly /\ cfg = AllOn
    /\ DOMAIN found[1].d # DOMAIN found[2].d
    /\ \A g \in Range(primarykeys) : \E k \in RecordKeys : startswith(k, g)

\* the printed cell of a padded value, and of any value in a given colour
Cell(colour, v) == "[" \o colour \o "]" \o format(v) \o "[/" \o colour \o "]"

\* C8 (as claimed): the row of a key that only one record holds shows
\* 'missing' in red on the other side, and the value in red on the side
\* that holds it.
C8_MissingSideIsRed ==
    (Compared /\ ~diffonly) =>
        \A i \in 1..Len(difftable) :
            LET r == difftable[i]
                in1 == r.key \in DOMAIN found[1].d
                in2 == r.key \in DOMAIN found[2].d
            IN /\ (in1 /\ ~in2) =>
                     /\ r.lpar2 = Cell("red", PyStr("missing"))
                     /\ r.lpar1 = Cell("red", found[1].d[r.key])
               /\ (in2 /\ ~in1) =>
                     /\ r.lpar1 = Cell("red", PyStr("missing"))
                     /\ r.lpar2 = Cell("red", found[2].d[r.key])

IsRed(r) == startswith(r.lpar1, "[red]")

\* C9: with diffonly the table is the table without diffonly cut down to
\* its red rows, in the same order and with the same cells.
C9_DiffOnlyIsRedRows ==
    (Compared /\ diffonly) =>
        difftable = SelectSeq(generate_table(found[1].d, found[2].d, FALSE), IsRed)

\* C9 witness: a diffonly table that holds some rows and leaves some out
C9_Witness ==
    /\ Compared /\ diffonly
    /\ difftable # <<>> /\ Len(difftable) < Cardinality(RecordKeys)

GroupFlag ==
    [General |-> "compare_general", Processor |-> "compare_processors",
     Memory |-> "compare_memory", Network |-> "compare_networking",
     vFC |-> "compare_virtual_fc", vSCSI |-> "compare_virtual_scsi"]

\* C10: a record returned by get_lpar_config holds no key that starts
\* with the name of a group whose flag is off.
C10_DisabledGroupAbsent ==
    \A n \in 1..2 :
        isinstance_dict(data(n)) =>
            \A k \in DOMAIN data(n).d : \A g \in Range(primarykeys) :
                startswith(k, g) => cfg[GroupFlag[g]]

\* C10 witness: with the general flag off and the others on, a lookup
\* returned a record for documents that hold the general elements
C10_Witness ==
    /\ pc = "get2" /\ isinstance_dict(lpar1_data)
    /\ cfg = [AllOn EXCEPT !["compare_general"] = FALSE]
    /\ DOMAIN lpar1_data.d # {}

\* the objects whose logon the HMC answered with a status other than 200:
\* only a 200 response carries a token
Refused == {i \in 1..Len(objects) : objects[i].token = ""}

\* C11: an object whose logon was refused ends the run with the refusing
\* status; it holds no token, is not connected and has no cleanup handler
\* registered; and from then on no object is constructed, no lookup is
\* made and no DELETE is sent.
C11_RefusedLogonIsFatal ==
    /\ [](\A i \in Refused :
             /\ ~objects[i].connected
             /\ \A j \in 1..Len(handlers) : handlers[j] # i
             /\ i = Len(objects)
             /\ exit.how = "SystemExit" /\ exit.at = "logon"
             /\ exit.code \in {r.status : r \in LogonResponses} \ {200})
    /\ [][Refused # {} => UNCHANGED <<objects, issued, revoked, asked, reads>>]_vars

\* C11 witness: the process is gone after the first host refused the
\* logon for the second pair; the sessions of the first pair were closed
\* and a second host was never contacted
C11_Witness ==
    /\ pc = "done" /\ Refused # {} /\ pair = 2 /\ host = 1 /\ Len(hmcs) = 2
    /\ Len(objects) >= 2 /\ \A t \in Issued : revoked[t] = 1

\* the step is the lookup of lpar n answered with ans
Looked(n, ans) ==
    IF n = 1 THEN wanted(lpar1_data) /\ GetLpar1({ans})
             ELSE wanted(lpar2_data) /\ GetLpar2({ans})

\* C12: a lookup whose search is answered 204 returns 1, one answered
\* neither 200 nor 204 returns 2, one answered 200 without a reference to
\* a profile returns 3, and each of the three sent the search request
\* only; a lookup sends one or two GET requests, and two only after a
\* search answered 200 with the reference.
C12_StatusToOutcome ==
    [][\A n \in 1..2 : \A ans \in Answers :
          Looked(n, ans) =>
              LET st == ans.search.status
                  ret == IF n = 1 THEN lpar1_data' ELSE lpar2_data'
              IN /\ st = 204 => ret = PyInt(1) /\ reads' = 1
                 /\ st \notin {200, 204} => ret = PyInt(2) /\ reads' = 1
                 /\ (st = 200 /\ ~ans.search.href) => ret = PyInt(3) /\ reads' = 1
                 /\ reads' \in {1, 2}
                 /\ reads' = 2 <=> (st = 200 /\ ans.search.href)]_vars

\* C12 witness: on the first host lpar 1 was not found and the lookup of
\* lpar 2 met a server error; on the second host lpar 1 has no profile and
\* the lookup of lpar 2, of two requests, has just returned a record
C12_Witness ==
    /\ pc = "logoff" /\ host = 2 /\ reads = 2
    /\ asked = {<<1, 1>>, <<1, 2>>, <<2, 1>>, <<2, 2>>}
    /\ lpar1_data = PyInt(3) /\ isinstance_dict(lpar2_data)

\* C13 (as claimed): a lookup answered with a profile whose network
\* adapter lacks PortVLANID does not end the run; it returns a record
\* that holds the adapter's PortVLANID key with the value None, and the
\* script goes on to the next statement of the host loop.
C13_AdapterFieldAbsentIsFound ==
    [][\A n \in 1..2 :
          (cfg["compare_networking"] /\ Looked(n, BrokenAnswer)) =>
              LET ret == IF n = 1 THEN lpar1_data' ELSE lpar2_data'
                  k == "Network_VirtualEthAdapter_0_PortVLANID"
              IN /\ exit' = Running /\ pc' \in {"get2", "logoff"}
                 /\ isinstance_dict(ret)
                 /\ k \in DOMAIN ret.d /\ ret.d[k] = None]_vars

\* the names of the fields get_lpar_config reads
FieldNames ==
    Range(attribs_general_general) \cup Range(attribs_default_general)
    \cup Range(attribs_default_processor) \cup Range(attribs_default_memory)
    \cup Range(attribs_default_veth) \cup Range(attribs_default_vfc)
    \cup Range(attribs_default_vscsi)

AdapterGroups == {"Network", "vFC", "vSCSI"}

\* C14 (as claimed): the display name of every row is the name of a
\* field, with neither group, adapter type nor adapter index in it.
C14_NameIsBareField ==
    Compared => \A i \in 1..Len(difftable) : difftable[i].name \in FieldNames

\* C14 (amended): the display name of a row is its key without the group
\* and the underscore that follows it.  For General, Processor and Memory
\* that is the name of the field; for the adapter groups it still holds
\* the adapter type and index, so rows of different keys have different
\* display names.
C14_NameIsKeyWithoutGroup ==
    Compared =>
        \A i \in 1..Len(difftable) :
            LET r == difftable[i]
            IN /\ \E g \in Range(primarykeys) :
                     /\ r.key = g \o "_" \o r.name
                     /\ g \notin AdapterGroups => r.name \in FieldNames
                     /\ g \in AdapterGroups =>
                            \E f \in FieldNames : \E a \in 0..MaxAdapters :
                                \E ty \in {"VirtualEthAdapter", "VirtualFcAdapter",
                                           "VirtualScsiAdapter"} :
                                    r.name = ty \o "_" \o ToString(a) \o "_" \o f
               /\ \A j \in 1..Len(difftable) :
                     difftable[j].name = r.name => j = i

\* C14 witness: a table with a row of the general group and rows for the
\* slot number of the first and of the second network adapter
C14_Witness ==
    /\ Compared
    /\ \E i \in 1..Len(difftable) : difftable[i].name = "PartitionType"
    /\ \E i, j \in 1..Len(difftable) :
          /\ difftable[i].key = "Network_VirtualEthAdapter_0_VirtualSlotNumber"
          /\ difftable[j].key = "Network_VirtualEthAdapter_1_VirtualSlotNumber"
          /\ difftable[i].name # difftable[j].name

\* the positions inside the loop over the hosts
HostLoop == {"host", "get1", "get2", "logoff"}

\* C15: while both names of the pair have a record, no object is
\* constructed and no logon is answered; and once a name has a record it
\* is not looked up again in the host loop of the pair and the variable
\* keeps that record to the end of the loop.
C15_SearchStopsWhenBothFound ==
    /\ [][(found[1] # None /\ found[2] # None) =>
             /\ Len(objects') = Len(objects) /\ issued' = issued
             /\ asked' \in {asked, {}}]_vars
    /\ [][\A n \in 1..2 :
             (found[n] # None /\ found'[n] # None /\ pc \in HostLoop) =>
                 /\ {a \in asked' : a[2] = n} = {a \in asked : a[2] = n}
                 /\ found'[n] = found[n]
                 /\ (IF n = 1 THEN lpar1_data' ELSE lpar2_data') = found[n]]_vars

\* C15 witness: both names were found on the first of two hosts; the host
\* loop is left with one object constructed and the second host not asked
C15_Witness ==
    /\ pc = "check" /\ found[1] # None /\ found[2] # None
    /\ Len(hmcs) = 2 /\ pair = 1 /\ Len(objects) = 1
    /\ asked = {<<1, 1>>, <<1, 2>>}

\* the message the result checks print for a return code
TextOf(code) ==
    IF code = PyInt(1) THEN "LPAR not found"
    ELSE IF code = PyInt(2) THEN "Error encountered obtaining data"
    ELSE IF code = PyInt(3) THEN "No default profile found"
    ELSE ""

NameOf(n) == IF n = 1 THEN lpars[pair].lpar1_name ELSE lpars[pair].lpar2_name

\* C16: every lookup that returns stores what this host returned,
\* whatever the variable held from an earlier host; so at the result
\* checks a name no host found holds the return code of the last host of
\* the list, and a message printed about a name is the message of the
\* code the last host returned for it.
C16_LastHostOutcomeStands ==
    /\ [][\A n \in 1..2 : \A ans \in Answers :
             (Looked(n, ans) /\ exit' = Running) =>
                 (IF n = 1 THEN lpar1_data' ELSE lpar2_data')
                     = get_lpar_config(objects[hmc], cfg, ans).ret]_vars
    /\ [](pc = "check" =>
             \A n \in 1..2 :
                 found[n] = None =>
                     /\ last[n].host = Len(hmcs)
                     /\ data(n) = last[n].ret
                     /\ data(n) \in {PyInt(c) : c \in 1..4})
    /\ [](exit.at = "check" =>
             \E n \in 1..2 :
                 /\ message.lpar = NameOf(n)
                 /\ found[n] = None /\ last[n].host = Len(hmcs)
                 /\ message.text = TextOf(last[n].ret) /\ message.text # "")

\* C16 witness: two hosts were asked for both names and neither found
\* lpar 2; the run ended at the result checks with the message of the
\* code the second host returned for lpar 2, lpar 1 having a record
C16_Witness ==
    /\ pc = "done" /\ exit.at = "check" /\ Len(hmcs) = 2
    /\ found[1] # None /\ found[2] = None
    /\ asked = {<<1, 1>>, <<1, 2>>, <<2, 1>>, <<2, 2>>}
    /\ last[2] = [host |-> 2, ret |-> PyInt(3)]
    /\ message = [text |-> "No default profile found", lpar |-> NameOf(2)]

\* some name of the pair has no record
PairFailed == found[1] = None \/ found[2] = None

\* C17: a pair left by the host loop with a name that has no record ends
\* the run, at the result checks or at the comparison they let through;
\* the script goes to the next pair only by the comparison of two records,
\* which sets the table of the pair; and once the run has ended no object
\* is constructed, no lookup made, no table set and no pair started.
C17_FailFast ==
    /\ [][(pc = "check" /\ PairFailed) =>
             (exit' # Running \/ (pc' = "compare" /\ pair' = pair))]_vars
    /\ [][(pc = "compare" /\ PairFailed) =>
             (exit' # Running /\ pair' = pair /\ difftable' = difftable)]_vars
    /\ [][pair' # pair =>
             /\ pair' = pair + 1 /\ ~PairFailed /\ pc = "compare"
             /\ difftable' = generate_table(found[1].d, found[2].d, diffonly)]_vars
    /\ [][exit # Running =>
             /\ UNCHANGED <<pair, issued, asked, reads, difftable, exit>>
             /\ Len(objects') = Len(objects)]_vars

\* C17 witness: the first of two pairs had a name no host found; the
\* process is gone, with no table and the second pair never started
C17_Witness ==
    /\ pc = "done" /\ exit.at = "check" /\ PairFailed
    /\ pair = 1 /\ Len(lpars) = 2 /\ difftable = <<>>
    /\ message.text # ""

\* the order of the groups as claimed, and the place of a key's group in it
GroupOrder == <<"General", "Processor", "Memory", "Network", "vFC", "vSCSI">>
GroupIndex(k) == CHOOSE g \in 1..Len(GroupOrder) : startswith(k, GroupOrder[g])

\* C18: of two consecutive rows of a table, the first is of an earlier
\* group in the order General, Processor, Memory, Network, vFC, vSCSI, or
\* of the same group and of the smaller key (both orders are transitive,
\* so the same holds of any two rows).
C18_RowsGroupedAndSorted ==
    Compared =>
        \A i \in 1..(Len(difftable) - 1) :
            LET ki == difftable[i].key
                kj == difftable[i + 1].key
            IN \/ GroupIndex(ki) < GroupIndex(kj)
               \/ GroupIndex(ki) = GroupIndex(kj) /\ StrLess(ki, kj)

\* C18 witness: a table with rows of all six groups and of two adapters,
\* from its first General row to its last vSCSI row
C18_Witness ==
    /\ Compared /\ Len(difftable) >= 20
    /\ {GroupIndex(difftable[i].key) : i \in 1..Len(difftable)} = 1..Len(GroupOrder)
    /\ difftable[1].key = "General_CurrentProcessorCompatibilityMode"
    /\ difftable[Len(difftable)].key = "vSCSI_VirtualScsiAdapter_1_VirtualSlotNumber"

\* the fixed groups: the flag that enables the group, the prefix of its
\* keys, its fields and the document of the answer they are read from
FixedGroups(ans) ==
    { [flag |-> "compare_general", prefix |-> "General_",
       fields |-> {"PartitionType", "CurrentProcessorCompatibilityMode"},
       doc |-> ans.search.elems],
      [flag |-> "compare_general", prefix |-> "General_",
       fields |-> {"ProfileName"}, doc |-> ans.profile.elems],
      [flag |-> "compare_processors", prefix |-> "Processor_",
       fields |-> Range(attribs_default_processor), doc |-> ans.profile.elems],
      [flag |-> "compare_memory", prefix |-> "Memory_",
       fields |-> Range(attribs_default_memory), doc |-> ans.profile.elems] }

\* C19: a record returned by a lookup holds, for every field of every
\* fixed group whose flag is on, the key of the field, with the text of
\* the field's element in the document the field is read from, or None
\* when the document has no such element; so the general keys read from
\* the search response hold its values after the profile was read.
C19_FixedFieldsPresent ==
    [][\A n \in 1..2 : \A ans \in DiffAnswers :
          LET ret == IF n = 1 THEN lpar1_data' ELSE lpar2_data'
          IN (Looked(n, ans) /\ isinstance_dict(ret)) =>
                 \A g \in FixedGroups(ans) :
                     cfg[g.flag] =>
                         \A f \in g.fields :
                             /\ g.prefix \o f \in DOMAIN ret.d
                             /\ ret.d[g.prefix \o f] =
                                    IF f \in DOMAIN g.doc THEN g.doc[f] ELSE None]_vars

\* C19 witness: with every flag on, a record read from a search response
\* without CurrentProcessorCompatibilityMode and a profile without
\* ExpansionFactor and with an empty SharingMode
C19_Witness ==
    /\ cfg = AllOn /\ pc = "get2" /\ isinstance_dict(lpar1_data)
    /\ lpar1_data.d["General_PartitionType"] = PyStr("AIX/Linux")
    /\ lpar1_data.d["General_CurrentProcessorCompatibilityMode"] = None
    /\ lpar1_data.d["General_ProfileName"] = PyStr("missing")
    /\ lpar1_data.d["Memory_ExpansionFactor"] = None
    /\ lpar1_data.d["Processor_SharingMode"] = None

AllOpen == \A i \in 1..Len(objects) : IsOpen(i)

\* C20: logon called when every object is connected, and get_lpar_config
\* called when none is, end the run with status 42, send no request and
\* leave every object as it is; and the script never ends that way: it
\* calls get_lpar_config and logoff on a connected object only, and no
\* object it has constructed is logged on again.
C20_MisuseIsFatalAndUnreachable ==
    /\ [][(FromCaller /\ CallLogon /\ objects # <<>> /\ AllOpen) =>
             /\ UNCHANGED <<objects, issued, revoked, reads, lpar1_data>>
             /\ exit' = SystemExit(42, "logon") /\ pc' = "atexit"]_vars
    /\ [][(FromCaller /\ CallGet /\ objects # <<>> /\ AllClosed) =>
             /\ UNCHANGED <<objects, issued, revoked, lpar1_data>> /\ reads' = 0
             /\ exit' = SystemExit(42, "get_lpar_config") /\ pc' = "atexit"]_vars
    /\ [](FromScript =>
             /\ exit.code # 42
             /\ pc \in {"get1", "get2", "logoff"} => objects[hmc].connected)
    /\ [][FromScript =>
             \A i \in 1..Len(objects) :
                 /\ objects'[i].token = objects[i].token
                 /\ objects'[i].hmc_name = objects[i].hmc_name]_vars

\* C20 witness: a caller has called logon on a connected object and the
\* run was halted with status 42, every object still connected
C20_Witness ==
    /\ exit = SystemExit(42, "logon") /\ calls > 0
    /\ objects # <<>> /\ AllOpen /\ \A t \in Issued : revoked[t] = 0

====
